---- MODULE Spec2Model ----
(***************************************************************************)
(* GeminiLiveClient (src/services/gemini-live.ts): the session controller  *)
(* and the playback scheduler of the live audio pipeline.                  *)
(*                                                                         *)
(* One client object; its fields are the first group of variables.  The    *)
(* browser and the remote service are the second group: the clock of the   *)
(* output context, the audio contexts the client created, the source       *)
(* nodes that still exist, the suspended connect() calls, the remote       *)
(* streams, and the inbound audio payloads whose decode is in flight.      *)
(*                                                                         *)
(* Time is counted in whole units (one unit = half a second).  0 stands    *)
(* for null in every handle field.                                         *)
(***************************************************************************)
EXTENDS Integers, Sequences, FiniteSets

\* ------------------------------------------------------------- bounds
MaxChunks == 2       \* audio payloads received in a run
MaxTime == 2         \* the output clock is followed up to here
MaxCaptures == 2     \* blocks delivered to onaudioprocess in a run

\* The connect() calls of a run: a first session and a reconnect.
ConnIds == {1, 2}
\* Durations of the decoded buffers: 0.5 s and 1.0 s.
Durations == {1, 2}

VARIABLES
    \* fields of GeminiLiveClient
    inputAudioContext,   \* 0 or the id of the input context
    outputAudioContext,  \* 0 or the id of the output context
    outputGain,          \* 0 or the id of the context the gain node belongs to
    processor,           \* 0 or the id of the connect() that created it
    inputSource,         \* 0 or the id of the connect() that created it
    nextStartTime,       \* the scheduling cursor
    sources,             \* the live-set: chunk numbers of source nodes
    session,             \* 0 or the id of the resolved session
    sessionPromise,      \* 0 or the id of the promise of live.connect
    \* the environment
    clock,               \* currentTime of the latest output context
    ctx,                 \* per connect id: the two contexts it created
    pc,                  \* per connect id: where that connect() call stands
    stream,              \* per connect id: the remote stream it opened
    arrived,             \* number of audio payloads delivered to onmessage
    decodes,             \* audio payloads being decoded (await at line 100);
                         \* ctx: the output context handed to the decode,
                         \* cut: an interruption was handled meanwhile
    src,                 \* the source nodes whose ended event has not fired
    procs,               \* per connect id: 0 or the input context on which
                         \* the script processor it created is running
    waiting,             \* per connect id: the captured blocks queued on the
                         \* session promise by then() at line 59
    status,              \* the connection status of App (App.tsx line 9)
    mic,                 \* per connect id: the MediaStream of getUserMedia
    \* history
    last,                \* the chunk scheduled most recently: its number, and
                         \* its scheduled end (0 once an interruption cut it)
    afterInterrupt,      \* an interruption was handled since that chunk
    lastCall,            \* the latest call of the public API
    uncaught,            \* an exception escaped a handler
    notified,            \* the latest callback made to the owner
    captured,            \* number of blocks delivered to onaudioprocess
    lastSent,            \* the block passed to sendRealtimeInput most recently
    lastFailed           \* the block whose send failed most recently

vars == <<inputAudioContext, outputAudioContext, outputGain, processor,
          inputSource, nextStartTime, sources, session, sessionPromise,
          clock, ctx, pc, stream, arrived, decodes, src, last,
          afterInterrupt, lastCall, uncaught, procs, waiting, status,
          notified, captured, lastSent, lastFailed, mic>>

clientVars == <<inputAudioContext, outputAudioContext, outputGain, processor,
                inputSource, nextStartTime, sources, session, sessionPromise>>

captureVars == <<captured, waiting, lastSent, lastFailed, mic>>

NoChunk == [m |-> 0, end |-> 0]

\* ------------------------------------------------------------ helpers

\* The source has played to its end, so its ended event is due.  The clock
\* of a context that a later connect() replaced is out of the client's
\* sight: a source on it may end at any moment.  (A playing source is
\* never on a closed context: disconnect stops the live-set first.)
Finished(s) ==
    /\ s.state = "playing"
    /\ s.ctx = outputAudioContext => clock >= s.start + s.dur

Init ==
    /\ inputAudioContext = 0
    /\ outputAudioContext = 0
    /\ outputGain = 0
    /\ processor = 0
    /\ inputSource = 0
    /\ nextStartTime = 0
    /\ sources = {}
    /\ session = 0
    /\ sessionPromise = 0
    /\ clock = 0
    /\ ctx = [k \in ConnIds |-> [in |-> "none", out |-> "none"]]
    /\ pc = [k \in ConnIds |-> "idle"]
    /\ stream = [k \in ConnIds |-> "none"]
    /\ arrived = 0
    /\ decodes = {}
    /\ src = {}
    /\ last = NoChunk
    /\ afterInterrupt = FALSE
    /\ lastCall = "none"
    /\ uncaught = FALSE
    /\ procs = [k \in ConnIds |-> 0]
    /\ waiting = [k \in ConnIds |-> <<>>]
    /\ status = "disconnected"
    /\ notified = "none"
    /\ captured = 0
    /\ lastSent = 0
    /\ lastFailed = 0
    /\ mic = [k \in ConnIds |-> "none"]

\* The output context's clock advances.
Tick ==
    /\ outputAudioContext # 0
    /\ clock < MaxTime
    /\ clock' = clock + 1
    /\ UNCHANGED <<clientVars, ctx, pc, stream, arrived, decodes, src, last,
                   afterInterrupt, lastCall, uncaught, procs, notified,
                   captureVars>>

\* connect(), lines 28-47: both contexts, the analysers and the gain node
\* are created, then the call suspends on getUserMedia.  The clock of the
\* new output context starts at 0.
ConnectStart(k) ==
    /\ pc[k] = "idle"
    /\ \A j \in ConnIds : j < k => pc[j] # "idle"
    /\ inputAudioContext' = k
    /\ outputAudioContext' = k
    /\ outputGain' = k
    /\ clock' = 0
    /\ ctx' = [ctx EXCEPT ![k] = [in |-> "running", out |-> "running"]]
    /\ pc' = [pc EXCEPT ![k] = "awaitMedia"]
    /\ lastCall' = "connect"
    /\ UNCHANGED <<processor, inputSource, nextStartTime, sources, session,
                   sessionPromise, stream, arrived, decodes, src, last,
                   afterInterrupt, uncaught, procs, notified, captureVars>>

\* ----------------------------------------------------- playback scheduler

\* scheduleAudioChunk, lines 143-146: the start time of a chunk, from the
\* cursor and the output clock read at line 143.
StartNoClamp(cursor, currentTime) == cursor
StartAlwaysNow(cursor, currentTime) == currentTime
StartTime(cursor, currentTime) ==
    IF cursor < currentTime THEN currentTime ELSE cursor

\* scheduleAudioChunk, line 149: the cursor after a chunk was started.
CursorNotAdvanced(start, duration) == start
CursorAssigned(start, duration) == duration
CursorAfter(start, duration) == start + duration

\* stopAllSources, lines 158-162: stop() on every source of the live-set.
\* Of a stopped node only its pending ended event matters.
StoppedAll ==
    {IF s.m \in sources /\ s.state = "playing"
     THEN [m |-> s.m, ctx |-> 0, start |-> 0, dur |-> 0, state |-> "stopped"]
     ELSE s : s \in src}

\* stopAllSources, line 163: the live-set it leaves.
LiveNotCleared == sources
LiveAfterStop == {}

\* stopAllSources, lines 159-161: whether an exception of stop() escapes.
\* stop() may throw on a node that has already finished; the catch
\* swallows it.
StopNotCaught == \E s \in src : s.m \in sources /\ Finished(s)
StopEscapes == FALSE

\* disconnect, lines 187-194: whether a call on a null handle throws.
\* Every call is optional (?.) and skips a null handle.
CallOnNullThrows == processor = 0 \/ inputAudioContext = 0
OptionalCallEscapes == FALSE

\* scheduleAudioChunk(buffer), lines 134-155, for the decoded payload d.
ScheduleAudioChunk(d) ==
    IF outputAudioContext = 0 \/ outputGain = 0
    THEN UNCHANGED <<nextStartTime, sources, src, last, afterInterrupt>>
    ELSE LET currentTime == clock
             start == StartTime(nextStartTime, currentTime)
         IN /\ src' = src \cup {[m |-> d.m, ctx |-> outputAudioContext,
                                 start |-> start, dur |-> d.dur,
                                 state |-> "playing"]}
            /\ nextStartTime' = CursorAfter(start, d.dur)
            /\ sources' = sources \cup {d.m}
            /\ last' = [m |-> d.m, end |-> start + d.dur]
            /\ afterInterrupt' = FALSE

\* source.onended, lines 152-154: fired by the browser once for a source
\* that played to its end or was stopped; the node is then gone.
OnEnded(s) ==
    /\ s \in src
    /\ Finished(s) \/ s.state = "stopped"
    /\ src' = src \ {s}
    /\ sources' = sources \ {s.m}
    /\ UNCHANGED <<inputAudioContext, outputAudioContext, outputGain,
                   processor, inputSource, nextStartTime, session,
                   sessionPromise, clock, ctx, pc, stream, arrived, decodes,
                   last, afterInterrupt, lastCall, uncaught, procs, notified,
                   captureVars>>

\* ------------------------------------------------------ session controller

\* session.close() of disconnect, lines 169-182, on the remote streams.
ClosedStreams ==
    IF session # 0 THEN [stream EXCEPT ![session] = "closed"] ELSE stream

\* close() of both contexts, lines 193-194.
ContextsLeftOpen == ctx
ClosedContexts ==
    [k \in ConnIds |->
        [in |-> IF k = inputAudioContext THEN "closed" ELSE ctx[k].in,
         out |-> IF k = outputAudioContext THEN "closed" ELSE ctx[k].out]]

\* processor.disconnect() at line 187 and the close() of the input context
\* at line 193: the script processors that no longer run.
StoppedProcessors ==
    [k \in ConnIds |->
        IF k = processor \/ procs[k] = inputAudioContext THEN 0 ELSE procs[k]]

\* The body of disconnect(), lines 166-200, but for the remote stream,
\* which the calling action sets from ClosedStreams.  The MediaStream of
\* getUserMedia is a local of connect() (line 47): nothing here stops its
\* tracks, so the calling action leaves mic as it is.
disconnect ==
    /\ src' = StoppedAll
    /\ sources' = LiveAfterStop
    /\ uncaught' = (uncaught \/ StopEscapes \/ OptionalCallEscapes)
    /\ session' = 0
    /\ sessionPromise' = 0
    /\ ctx' = ClosedContexts
    /\ clock' = 0
    /\ inputAudioContext' = 0
    /\ outputAudioContext' = 0
    /\ processor' = 0
    /\ inputSource' = 0
    /\ procs' = StoppedProcessors
    /\ UNCHANGED <<outputGain, nextStartTime>>

\* disconnect() called by the owner of the client.
Disconnect ==
    /\ disconnect
    /\ stream' = ClosedStreams
    /\ lastCall' = "disconnect"
    /\ UNCHANGED <<pc, arrived, decodes, last, afterInterrupt, notified,
                   captureVars>>

\* connect() resumes with the microphone stream, lines 48-73, and suspends
\* again on the session promise (line 125).  With no input context left
\* (disconnect() ran meanwhile) line 48 throws and the catch of lines
\* 127-131 runs.
MediaGranted(k) ==
    /\ pc[k] = "awaitMedia"
    /\ mic' = [mic EXCEPT ![k] = "live"]
    /\ IF inputAudioContext = 0
       THEN /\ disconnect
            /\ stream' = ClosedStreams
            /\ pc' = [pc EXCEPT ![k] = "failed"]
            /\ notified' = "error"
       ELSE /\ inputSource' = k
            /\ processor' = k
            /\ procs' = [procs EXCEPT ![k] = inputAudioContext]
            /\ sessionPromise' = k
            /\ stream' = [stream EXCEPT ![k] = "opening"]
            /\ pc' = [pc EXCEPT ![k] = "awaitSession"]
            /\ UNCHANGED <<inputAudioContext, outputAudioContext, outputGain,
                           nextStartTime, sources, session, clock, ctx, src,
                           uncaught, notified>>
    /\ UNCHANGED <<arrived, decodes, last, afterInterrupt, lastCall,
                   captured, waiting, lastSent, lastFailed>>

\* getUserMedia rejects: the catch of lines 127-131.
MediaDenied(k) ==
    /\ pc[k] = "awaitMedia"
    /\ disconnect
    /\ stream' = ClosedStreams
    /\ pc' = [pc EXCEPT ![k] = "failed"]
    /\ notified' = "error"
    /\ UNCHANGED <<arrived, decodes, last, afterInterrupt, lastCall,
                   captureVars>>

\* The promise of live.connect resolves: line 125 stores the session, then
\* the callbacks that onaudioprocess queued on the promise (line 59) run in
\* the order they were attached, each sending its block.
SessionOpened(k) ==
    /\ pc[k] = "awaitSession"
    /\ session' = k
    /\ stream' = [stream EXCEPT ![k] = "open"]
    /\ pc' = [pc EXCEPT ![k] = "done"]
    /\ waiting' = [waiting EXCEPT ![k] = <<>>]
    /\ lastSent' = IF waiting[k] # <<>>
                   THEN waiting[k][Len(waiting[k])] ELSE lastSent
    /\ UNCHANGED <<procs, notified, captured, lastFailed, mic>>
    /\ UNCHANGED <<inputAudioContext, outputAudioContext, outputGain,
                   processor, inputSource, nextStartTime, sources,
                   sessionPromise, clock, ctx, arrived, decodes, src, last,
                   afterInterrupt, lastCall, uncaught>>

\* The promise of live.connect rejects: the catch of lines 127-131, then
\* the rejection reaches the catch of every callback queued at line 59,
\* which logs it (lines 62-65).
SessionFailed(k) ==
    /\ pc[k] = "awaitSession"
    /\ disconnect
    /\ stream' = [ClosedStreams EXCEPT ![k] = "failed"]
    /\ pc' = [pc EXCEPT ![k] = "failed"]
    /\ notified' = "error"
    /\ waiting' = [waiting EXCEPT ![k] = <<>>]
    /\ lastFailed' = IF waiting[k] # <<>>
                     THEN waiting[k][Len(waiting[k])] ELSE lastFailed
    /\ UNCHANGED <<arrived, decodes, last, afterInterrupt, lastCall,
                   captured, lastSent, mic>>

\* onmessage, lines 89-93: the interruption branch.
InterruptKeepsCursor ==
    /\ src' = StoppedAll
    /\ sources' = LiveAfterStop
    /\ uncaught' = (uncaught \/ StopEscapes)
    /\ afterInterrupt' = TRUE
    /\ last' = [last EXCEPT !.end = 0]
    /\ UNCHANGED nextStartTime
Interrupt ==
    /\ src' = StoppedAll
    /\ sources' = LiveAfterStop
    /\ uncaught' = (uncaught \/ StopEscapes)
    /\ nextStartTime' = 0
    /\ afterInterrupt' = TRUE
    /\ last' = [last EXCEPT !.end = 0]

\* The decodes in flight once a message was handled: the interruption
\* branch (lines 90-93) does nothing to them.
InFlight(interrupted) ==
    IF interrupted THEN {[d EXCEPT !.cut = TRUE] : d \in decodes} ELSE decodes

\* onmessage, lines 86-100, up to the await: a message of stream k that
\* signals an interruption (interrupted), carries an audio payload of
\* duration dur (dur > 0), both, or neither.
OnMessage(k, interrupted, dur) ==
    /\ stream[k] = "open"
    /\ dur > 0 => arrived < MaxChunks
    /\ arrived' = IF dur > 0 THEN arrived + 1 ELSE arrived
    /\ IF interrupted
       THEN Interrupt
       ELSE UNCHANGED <<src, sources, uncaught, nextStartTime, afterInterrupt,
                        last>>
    /\ IF dur > 0 /\ outputAudioContext # 0 /\ outputGain # 0
       THEN decodes' = InFlight(interrupted) \cup
                {[m |-> arrived + 1, intr |-> interrupted, dur |-> dur,
                  ctx |-> outputAudioContext, cut |-> FALSE]}
       ELSE decodes' = InFlight(interrupted)
    /\ UNCHANGED <<inputAudioContext, outputAudioContext, outputGain,
                   processor, inputSource, session, sessionPromise, clock,
                   ctx, pc, stream, lastCall, procs, notified, captureVars>>

\* decodeAudioData of the payload d may complete: decodes run without
\* blocking and may overlap, so any pending one may be the next to settle.
DecodeCompletes(d) == d \in decodes

\* onmessage, lines 100-107, after the await: the decoded buffer is
\* scheduled.
DecodeDone(d) ==
    /\ DecodeCompletes(d)
    /\ decodes' = decodes \ {d}
    /\ ScheduleAudioChunk(d)
    /\ UNCHANGED <<inputAudioContext, outputAudioContext, outputGain,
                   processor, inputSource, session, sessionPromise, clock,
                   ctx, pc, stream, arrived, lastCall, uncaught, procs,
                   notified, captureVars>>

\* onmessage, lines 108-110: the decode rejects and the payload is dropped.
DecodeFailTearsDown(d) ==
    /\ DecodeCompletes(d)
    /\ decodes' = decodes \ {d}
    /\ disconnect
    /\ stream' = ClosedStreams
    /\ UNCHANGED <<pc, arrived, last, afterInterrupt, lastCall, notified,
                   captureVars>>
DecodeFail(d) ==
    /\ DecodeCompletes(d)
    /\ decodes' = decodes \ {d}
    /\ UNCHANGED <<clientVars, clock, ctx, pc, stream, arrived, src, last,
                   afterInterrupt, lastCall, uncaught, procs, notified,
                   captureVars>>

\* onclose, lines 113-116: the remote end closed stream k; the owner's
\* onDisconnect is called and nothing else is done.
OnClose(k) ==
    /\ stream[k] \in {"open", "errored"}
    /\ stream' = [stream EXCEPT ![k] = "closed"]
    /\ notified' = "disconnect"
    /\ UNCHANGED <<clientVars, clock, ctx, pc, arrived, decodes, src, last,
                   afterInterrupt, lastCall, uncaught, procs, captureVars>>

\* onerror, lines 117-120: stream k reports an error; the owner's onError
\* is called and nothing else is done.
OnError(k) ==
    /\ stream[k] = "open"
    /\ stream' = [stream EXCEPT ![k] = "errored"]
    /\ notified' = "error"
    /\ UNCHANGED <<clientVars, clock, ctx, pc, arrived, decodes, src, last,
                   afterInterrupt, lastCall, uncaught, procs, captureVars>>

\* -------------------------------------------------------- capture pipeline

\* The catch of lines 62-65: the send of block c failed and is logged.
SendFailedTearsDown(c) ==
    /\ lastFailed' = c
    /\ disconnect
    /\ stream' = ClosedStreams
    /\ notified' = "error"
    /\ UNCHANGED <<waiting, lastSent>>
SendFailed(c) ==
    /\ lastFailed' = c
    /\ UNCHANGED <<clientVars, clock, ctx, stream, src, uncaught, procs,
                   notified, waiting, lastSent>>

\* processor.onaudioprocess, lines 54-67, called by the script processor
\* that connect() p created.  With a session promise in place the block is
\* handed to then(): a pending promise keeps the callback until it
\* settles, a resolved one runs it at once, and sendRealtimeInput sends
\* the block (ok) or throws.
AudioProcess(p, ok) ==
    /\ procs[p] # 0
    /\ captured < MaxCaptures
    /\ captured' = captured + 1
    /\ LET c == captured + 1
           q == sessionPromise
       IN IF q = 0
          THEN UNCHANGED <<clientVars, clock, ctx, stream, src, uncaught,
                           procs, notified, waiting, lastSent, lastFailed>>
          ELSE IF pc[q] = "awaitSession"
          THEN /\ waiting' = [waiting EXCEPT ![q] = Append(@, c)]
               /\ UNCHANGED <<clientVars, clock, ctx, stream, src, uncaught,
                              procs, notified, lastSent, lastFailed>>
          ELSE IF ok /\ stream[q] = "open"
          THEN /\ lastSent' = c
               /\ UNCHANGED <<clientVars, clock, ctx, stream, src, uncaught,
                              procs, notified, waiting, lastFailed>>
          ELSE SendFailed(c)
    /\ UNCHANGED <<pc, arrived, decodes, last, afterInterrupt, lastCall, mic>>

\* The client with any owner: the scheduler and the session controller.
\* (App's status is no part of the client.)
Next ==
    \/ Tick /\ UNCHANGED status
    \/ \E k \in ConnIds : ConnectStart(k) /\ UNCHANGED status
    \/ \E k \in ConnIds : MediaGranted(k) /\ UNCHANGED status
    \/ \E k \in ConnIds : MediaDenied(k) /\ UNCHANGED status
    \/ \E k \in ConnIds : SessionOpened(k) /\ UNCHANGED status
    \/ \E k \in ConnIds : SessionFailed(k) /\ UNCHANGED status
    \/ Disconnect /\ UNCHANGED status
    \/ \E k \in ConnIds, interrupted \in BOOLEAN, dur \in Durations \cup {0} :
          OnMessage(k, interrupted, dur) /\ UNCHANGED status
    \/ \E d \in decodes : DecodeDone(d) /\ UNCHANGED status
    \/ \E d \in decodes : DecodeFail(d) /\ UNCHANGED status
    \/ \E s \in src : OnEnded(s) /\ UNCHANGED status

Spec == Init /\ [][Next]_vars

\* The client with any owner: the session controller, the remote stream's
\* events and the capture pipeline, while no audio arrives.
NextSession ==
    \/ \E k \in ConnIds : ConnectStart(k) /\ UNCHANGED status
    \/ \E k \in ConnIds : MediaGranted(k) /\ UNCHANGED status
    \/ \E k \in ConnIds : MediaDenied(k) /\ UNCHANGED status
    \/ \E k \in ConnIds : SessionOpened(k) /\ UNCHANGED status
    \/ \E k \in ConnIds : SessionFailed(k) /\ UNCHANGED status
    \/ Disconnect /\ UNCHANGED status
    \/ \E k \in ConnIds : OnClose(k) /\ UNCHANGED status
    \/ \E k \in ConnIds : OnError(k) /\ UNCHANGED status
    \/ \E p \in ConnIds, ok \in BOOLEAN :
          AudioProcess(p, ok) /\ UNCHANGED status

SpecSession == Init /\ [][NextSession]_vars

\* ------------------------------------------------------------------- App

\* setStatus (App.tsx line 9); a component that was unmounted keeps no
\* state.
SetStatus(s) == IF status = "unmounted" THEN status ELSE s

\* handleConnect, App.tsx lines 33-39, reached from the button that is
\* rendered while the status is 'disconnected' or 'error' (line 148).
handleConnect(k) ==
    /\ status \in {"disconnected", "error"}
    /\ ConnectStart(k)
    /\ status' = "connecting"

\* handleConnect after connect() returned, App.tsx lines 57-61.  On a
\* failure the onError callback (lines 47-54) has run just before.
ConnectReturned == SetStatus("connected")

AppMediaGranted(k) ==
    /\ MediaGranted(k)
    /\ status' = IF pc'[k] = "failed" THEN ConnectReturned ELSE status

AppMediaDenied(k) == MediaDenied(k) /\ status' = ConnectReturned

AppSessionOpened(k) == SessionOpened(k) /\ status' = ConnectReturned

AppSessionFailed(k) == SessionFailed(k) /\ status' = ConnectReturned

\* handleDisconnect, App.tsx lines 64-71, reached from the End Session
\* button, which takes clicks only while the status is 'connected' (176).
handleDisconnect ==
    /\ status = "connected"
    /\ Disconnect
    /\ status' = "disconnected"

\* The cleanup of the effect, App.tsx lines 26-30, when App unmounts.
Unmount ==
    /\ status # "unmounted"
    /\ Disconnect
    /\ status' = "unmounted"

\* The onDisconnect callback, App.tsx lines 41-46, called from onclose.
AppOnClose(k) == OnClose(k) /\ status' = SetStatus("disconnected")

\* The onError callback, App.tsx lines 47-54, called from onerror.
AppOnError(k) == OnError(k) /\ status' = SetStatus("error")

\* App and its client, while no audio arrives.
NextApp ==
    \/ \E k \in ConnIds : handleConnect(k)
    \/ \E k \in ConnIds : AppMediaGranted(k)
    \/ \E k \in ConnIds : AppMediaDenied(k)
    \/ \E k \in ConnIds : AppSessionOpened(k)
    \/ \E k \in ConnIds : AppSessionFailed(k)
    \/ handleDisconnect
    \/ Unmount
    \/ \E k \in ConnIds : AppOnClose(k)
    \/ \E k \in ConnIds : AppOnError(k)
    \/ \E p \in ConnIds, ok \in BOOLEAN :
          AudioProcess(p, ok) /\ UNCHANGED status

SpecApp == Init /\ [][NextApp]_vars

\* ------------------------------------------------------------- properties

Max(a, b) == CHOOSE x \in {a, b} : \A y \in {a, b} : x >= y

\* A step that started a source node, and the node it started.
Scheduled == last'.m # last.m
NewNode == CHOOSE s \in src' : s.m = last'.m

\* A step that handled a message carrying the interruption flag.
InterruptStep ==
    \E k \in ConnIds, dur \in Durations \cup {0} : OnMessage(k, TRUE, dur)

\* No session, no audio resource, nothing playing.
Idle ==
    /\ session = 0 /\ sessionPromise = 0
    /\ inputAudioContext = 0 /\ outputAudioContext = 0
    /\ processor = 0 /\ inputSource = 0
    /\ sources = {}

\* No disconnect has run so far: one connect() call, never torn down.
FirstSession == pc[1] = "done" /\ pc[2] = "idle" /\ lastCall = "connect"

\* C1: every chunk that scheduleAudioChunk schedules starts at the larger of
\* the cursor before the call and the output clock at the call, so never in
\* the past, and the cursor afterwards is that start plus the chunk's
\* duration.
C1_StartIsMaxOfCursorAndClock ==
    [][Scheduled =>
         /\ outputAudioContext # 0
         /\ NewNode.start = Max(nextStartTime, clock)
         /\ NewNode.start >= clock
         /\ nextStartTime' = NewNode.start + NewNode.dur]_vars

\* A chunk was just scheduled at the clock, which had passed the cursor.
C1_Witness ==
    \E s \in src :
        /\ s.m = last.m /\ s.state = "playing"
        /\ clock > 0 /\ s.start = clock
        /\ nextStartTime = s.start + s.dur

\* C2: a chunk enqueued after another, with no interruption in between,
\* starts no earlier than the scheduled end of that chunk.  (Stated for
\* consecutive chunks; it carries over to any two, a later start being
\* beyond every earlier end.)
C2_NoStartBeforePriorEnd ==
    [][(Scheduled /\ last.m # 0 /\ ~afterInterrupt) =>
         /\ NewNode.start >= last.end
         /\ \A s \in src : s.state = "playing" /\ s.m \in sources
                => NewNode.start >= s.start + s.dur]_vars

\* Two chunks are live, the later one starting after the earlier one ends.
C2_Witness ==
    \E a, b \in src :
        /\ a.m # b.m /\ b.m = last.m
        /\ {a.m, b.m} \subseteq sources
        /\ a.state = "playing" /\ b.state = "playing"
        /\ b.start > a.start + a.dur

\* C3: a chunk enqueued directly after chunk A, with no interruption in
\* between and the output clock not past A's scheduled end, starts exactly
\* at A's end.
C3_Gapless ==
    [][(Scheduled /\ last.m # 0 /\ ~afterInterrupt /\ clock <= last.end) =>
         NewNode.start = last.end]_vars

\* A of 1.0 s then B of 0.5 s on a fresh scheduler: B starts at A's end.
C3_Witness ==
    \E a, b \in src :
        /\ a.m = 1 /\ b.m = 2 /\ last.m = 2
        /\ {1, 2} \subseteq sources
        /\ a.start = 0 /\ a.dur = 2 /\ b.dur = 1
        /\ b.start = a.start + a.dur

\* C4 as stated: the cursor never becomes smaller.
C4_CursorNeverDecreases == [][nextStartTime' >= nextStartTime]_vars

\* C4 amended: the cursor becomes smaller only in the handling of an
\* interruption message, which sets it to 0; enqueue, disconnect and
\* connect never lower it.
C4_CursorDecreasesOnlyByInterrupt ==
    [][nextStartTime' < nextStartTime =>
         InterruptStep /\ nextStartTime' = 0]_vars

\* An interruption has reset the cursor that a chunk had advanced.
C4_Witness ==
    /\ afterInterrupt /\ nextStartTime = 0 /\ last.m # 0
    /\ \E s \in src : s.state = "stopped"

\* C5: audio payloads are passed to scheduleAudioChunk in the order their
\* messages arrived.
C5_EnqueueInArrivalOrder == [][Scheduled => last'.m > last.m]_vars

\* C6: handling an interruption stops every source of the live-set, empties
\* the live-set and sets the cursor to 0; the next chunk enqueued after it
\* starts at the output clock's current time.
C6_InterruptResets ==
    [][/\ InterruptStep =>
            /\ sources' = {}
            /\ nextStartTime' = 0
            /\ \A s \in src' : s.m \in sources => s.state = "stopped"
       /\ (Scheduled /\ afterInterrupt) => NewNode.start = clock]_vars

\* With no disconnect so far: a chunk was stopped, and the chunk enqueued
\* next was started at the clock.
C6_Witness ==
    /\ FirstSession
    /\ \E a, b \in src :
        /\ a.state = "stopped" /\ b.state = "playing"
        /\ b.m = last.m /\ sources = {b.m}
        /\ clock > 0 /\ b.start = clock

\* C7: handling an interruption raises no error and leaves the live-set
\* empty and the cursor at 0; when the live-set is already empty and the
\* cursor already 0 (a second interruption in a row, or every source has
\* ended or was stopped) it changes nothing of the client; the late ended
\* event of a stopped source changes nothing of the client.
C7_InterruptIdempotent ==
    [][/\ InterruptStep =>
            ~uncaught' /\ sources' = {} /\ nextStartTime' = 0
       /\ (InterruptStep /\ sources = {} /\ nextStartTime = 0) =>
            (UNCHANGED clientVars /\ src' = src)
       /\ (\E s \in src : s.state = "stopped" /\ OnEnded(s)) =>
            UNCHANGED clientVars]_vars

\* With no disconnect so far: an interruption was handled, nothing is
\* live, and the ended event of a source it stopped is still to come.
C7_Witness ==
    /\ FirstSession
    /\ afterInterrupt /\ sources = {} /\ nextStartTime = 0
    /\ \E s \in src : s.state = "stopped"

\* C8: once a message that carried both the interruption flag and an audio
\* payload is fully handled, its own chunk is in the live-set, scheduled at
\* the output clock's current time.
C8_OwnChunkStartsNow ==
    [][\A d \in decodes :
         (d.intr /\ DecodeDone(d) /\ Scheduled) =>
             d.m \in sources' /\ NewNode.start = clock]_vars

\* C9: disconnect() while Idle raises no error and changes nothing of the
\* client, nor of the contexts, streams and source nodes.
C9_DisconnectIdleNoOp ==
    [][(Idle /\ Disconnect) =>
         /\ ~uncaught'
         /\ UNCHANGED <<clientVars, ctx, stream, src>>]_vars

\* Idle after the disconnect() of an established session.
C9_Witness ==
    /\ Idle /\ lastCall = "disconnect"
    /\ pc[1] = "done" /\ stream[1] = "closed" /\ ctx[1].out = "closed"

\* C10: from a disconnect() until the next connect() the controller is
\* Idle: no session handle, no remote stream open, no audio context held.
C10_DisconnectedStaysIdle ==
    lastCall = "disconnect" =>
        /\ session = 0
        /\ inputAudioContext = 0 /\ outputAudioContext = 0
        /\ \A k \in ConnIds : stream[k] # "open"

\* C11: a connect() that follows a disconnect() starts from the scheduler
\* state of a fresh client: an empty live-set and a cursor of 0, so that
\* the first chunk of the new session starts at the new output clock.
C11_ReconnectStartsFresh ==
    [][\A k \in ConnIds :
         (lastCall = "disconnect" /\ ConnectStart(k)) =>
             sources' = {} /\ nextStartTime' = 0]_vars

\* A step in which the connect() call k ran its catch (lines 127-131).
ConnectFailed(k) == pc[k] \in {"awaitMedia", "awaitSession"} /\ pc'[k] = "failed"

\* C12: when connect() fails during setup (the microphone is refused or
\* the remote stream does not open) the client is torn down in full: no
\* session and no session promise, both context fields null and the
\* contexts they held closed, the live-set empty; and the failure is
\* reported through onError.
C12_FailedConnectTearsDown ==
    [][\A k \in ConnIds :
         ConnectFailed(k) =>
             /\ Idle'
             /\ inputAudioContext # 0 => ctx'[inputAudioContext].in = "closed"
             /\ outputAudioContext # 0 =>
                    ctx'[outputAudioContext].out = "closed"
             /\ notified' = "error"]_vars

\* The first connect() failed because the remote stream did not open;
\* the owner never called disconnect().
C12_Witness ==
    /\ pc[1] = "failed" /\ stream[1] = "failed" /\ pc[2] = "idle"
    /\ lastCall = "connect"
    /\ Idle /\ ctx[1] = [in |-> "closed", out |-> "closed"]
    /\ notified = "error"

\* C13: a connect that was aborted leaves App's status at 'error' once
\* handleConnect has completed, and the status is 'connected' only while
\* the client holds a session.
C13_AbortedConnectShowsError ==
    [][/\ \A k \in ConnIds :
            ConnectFailed(k) => status' \in {"error", "unmounted"}
       /\ status' = "connected" => session' # 0]_vars

\* C14: when onclose or onerror of the stream of the held session fires,
\* the owner is notified and the client leaves Active: afterwards it holds
\* no session and no audio resource.
C14_StreamEndLeavesActive ==
    [][\A k \in ConnIds :
         (session = k /\ (OnClose(k) \/ OnError(k))) =>
             notified' \in {"disconnect", "error"} /\ Idle']_vars

\* C15: a connect() that starts while the client still holds a session or
\* audio resources first tears them down: once it has started, no context
\* of an earlier connect() is running, no script processor of an earlier
\* connect() captures, and no earlier session is held.
C15_ConnectTearsDownPrior ==
    [][\A k \in ConnIds :
         (ConnectStart(k) /\ ~Idle) =>
             /\ session' = 0
             /\ \A j \in ConnIds \ {k} :
                    /\ ctx'[j].in # "running" /\ ctx'[j].out # "running"
                    /\ procs'[j] = 0]_vars

\* A step in which onaudioprocess took a block.
Captured == captured' = captured + 1

\* C16: a block captured while the client holds no session, the time it
\* is connecting included, is dropped: it is neither sent nor kept for
\* later, so the number of blocks kept does not grow with the callbacks.
C16_CaptureWithoutSessionDropped ==
    [][(Captured /\ session = 0) =>
           waiting' = waiting /\ lastSent' = lastSent]_vars

\* C17: blocks are sent in the order they were captured, the blocks
\* captured before the session promise resolved included: the number of
\* the block sent last never goes down.
C17_SentInCaptureOrder ==
    [][lastSent' >= lastSent]_vars

Dropped ==
    /\ \E d \in decodes : decodes' = decodes \ {d}
    /\ ~Scheduled
    /\ outputAudioContext # 0 /\ outputGain # 0

\* C19: a decode failure drops only its own chunk: the live-set, the
\* cursor and every other field of the client stay as they are, no source
\* node changes, no context or stream is closed, so the session stays
\* Active and later payloads are decoded and enqueued as before.
C19_DecodeFailureDropsOneChunk ==
    [][Dropped =>
         /\ UNCHANGED <<clientVars, src, ctx, stream, pc, uncaught, notified>>
         /\ \A d \in decodes : d \in decodes' \/ decodes' = decodes \ {d}]_vars

\* In a first session: the first payload was dropped (nothing was ever
\* scheduled) and the second one is being decoded.
C19_Witness ==
    /\ FirstSession /\ session = 1 /\ outputAudioContext = 1
    /\ arrived = 2 /\ last.m = 0 /\ src = {}
    /\ \E d \in decodes : d.m = 2 /\ decodes = {d}

\* The chunk numbers of the nodes that play.
Playing == {s.m : s \in {x \in src : x.state = "playing"}}

\* C20: the live-set holds only source nodes that were started and have
\* neither been stopped nor had their ended event, so it is never larger
\* than the number of chunks not yet completed; the ended event of a
\* source removes exactly that source.
C20_LiveSetOnlyPlaying ==
    [][/\ sources' \subseteq Playing'
       /\ Cardinality(sources') <= Cardinality(Playing')
       /\ \A s \in src : src' = src \ {s} => sources' = sources \ {s.m}]_vars

\* In a first session with no interruption: of two chunks scheduled, the
\* first has ended and only the second is left in the live-set.
C20_Witness ==
    /\ FirstSession /\ ~afterInterrupt
    /\ last.m = 2 /\ sources = {2}
    /\ \E s \in src : src = {s} /\ s.m = 2 /\ s.state = "playing" /\ s.start > 0
    /\ nextStartTime = last.end

\* C22: an interruption cuts off all earlier audio: the step that handles
\* it leaves no source playing, and no payload whose decode was in flight
\* when an interruption was handled is scheduled afterwards.
C22_InterruptCutsEarlierAudio ==
    [][/\ InterruptStep => \A s \in src' : s.state # "playing"
       /\ \A d \in decodes : (DecodeDone(d) /\ Scheduled) => ~d.cut]_vars

\* The payload d was received before a disconnect(): the output context
\* that was handed to its decode has been closed since.
Stale(d) == ctx[d.ctx].out = "closed"

\* C23: audio received before a disconnect() is never scheduled after it:
\* when the decode of such a payload completes, nothing is added to the
\* live-set and the cursor does not move, also when a new connect() has
\* created a new output context meanwhile.
C23_StaleDecodeNotScheduled ==
    [][\A d \in decodes :
         (Stale(d) /\ DecodeDone(d)) =>
             UNCHANGED <<sources, nextStartTime, src>>]_vars

\* C21: the microphone is released on teardown: after disconnect(), called
\* by the owner or by the catch of a failed connect(), no MediaStream that
\* this client obtained from getUserMedia is still live.
C21_MicReleasedOnTeardown ==
    [][(Disconnect \/ \E k \in ConnIds : ConnectFailed(k)) =>
           \A k \in ConnIds : mic'[k] # "live"]_vars
====
